---- MODULE Spec2Model ----
(***************************************************************************)
(* Versioned document repository and cache-coherence protocol of the       *)
(* document microservice: DocumentService over a repository adapter        *)
(* (MongoDocumentAdapter or SQLDocumentAdapter) and RedisCacheAdapter.     *)
(*                                                                         *)
(* Conventions of the model                                                *)
(*  - author, tags and category are carried together as one opaque value   *)
(*    "metadata" (DocumentMetadata); the DTOs hand it over as              *)
(*    data.metadata, the way both adapters read it.                        *)
(*  - uuid4() is a fresh value: document ids come from next_id, the        *)
(*    version_id of a snapshot is the clock tick at which it is taken.     *)
(*  - datetime.utcnow() is the variable now; every mutating repository     *)
(*    step that reads the clock advances it by one.                        *)
(*  - every await of a service method is one step of a task; a task is one *)
(*    in-flight service call.  Spec runs the calls one after another,      *)
(*    SpecConc lets the calls of Tasks interleave at their awaits.         *)
(*  - Python None is None for text and list values, Null for objects.      *)
(*  - last, acked and update_log are history variables: they record what  *)
(*    the calls returned and what the repository applied, and no step      *)
(*    depends on them.                                                     *)
(***************************************************************************)
EXTENDS Integers, Sequences, FiniteSets, TLC

\* ------------------------------------------------------------------ bounds
MaxDocs == 2
MaxClock == 4
MaxCalls == 2
MaxFaults == 3

\* ------------------------------------------------------------------ values
None == "None"
Null == [null |-> TRUE]

Backends == {"mongo", "sql"}
Tasks == {"t1", "t2"}
Ids == 1..MaxDocs
Windows == {<<0, 1>>, <<1, 1>>}

\* the version ids a get_version call may ask for
VersionIds == 1..MaxClock

\* DocumentListDTO: limit is at most 100
MaxLimit == 100

\* the (skip, limit) pairs a ListDocumentsRequest may carry
RequestWindows == Windows \cup {<<-1, 1>>, <<0, 0>>, <<0, MaxLimit + 1>>}

DRAFT == "draft"
PUBLISHED == "published"
ARCHIVED == "archived"

\* inputs of create: DocumentCreateDTO values
CreateDTOs ==
  { [title |-> "A", content |-> "x", status |-> DRAFT,
     metadata |-> "bob", comments |-> <<>>] }

\* inputs of update: DocumentUpdateDTO values, absent fields are None
NoUpdate ==
  [title |-> None, content |-> None, status |-> None,
   metadata |-> None, comments |-> None]

UpdateDTOs ==
  { [NoUpdate EXCEPT !.title = "B"],
    [NoUpdate EXCEPT !.content = "y"],
    [NoUpdate EXCEPT !.status = PUBLISHED, !.metadata = "amy",
                     !.comments = <<"c1">>] }

\* ------------------------------------------------------------------ state
VARIABLES
  backend,            \* settings.DB_TYPE: which adapter the provider injects
  documents,          \* the documents collection / table: id -> stored record
  document_versions,  \* the document_versions table (relational backend)
  redis,              \* the cache: key -> stored string
  now,                \* datetime.utcnow()
  next_id,            \* next uuid4() handed to a created Document
  tasks,              \* the in-flight service calls
  last,               \* the service call that returned last, and its result
  acked,              \* per id, what the calls that returned told the callers
  update_log,         \* per id, the repository updates applied, in order
  calls,              \* number of calls issued concurrently (SpecConc)
  redis_up,           \* whether the Redis server answers
  faults              \* number of store faults still to come

vars == <<backend, documents, document_versions, redis, now, next_id,
          tasks, last, acked, update_log, calls, redis_up, faults>>

IdleTask ==
  [op |-> "idle", pc |-> "idle", id |-> 0, data |-> NoUpdate,
   window |-> <<0, 1>>, document |-> Null, row |-> Null, ts |-> 0,
   keys |-> {}, pre |-> Null, applied |-> FALSE, attempt |-> 1,
   failures |-> 0, version_id |-> 0]

NoCall ==
  [op |-> "none", id |-> 0, data |-> NoUpdate, window |-> <<0, 1>>,
   outcome |-> "none", value |-> Null, pre |-> Null, applied |-> FALSE,
   failures |-> 0, version_id |-> 0]

\* ---------------------------------------------------------------- helpers
RECURSIVE SeqOfSet(_)
\* the ids of S in ascending order
SeqOfSet(S) ==
  IF S = {} THEN <<>>
  ELSE LET m == CHOOSE x \in S : \A y \in S : x <= y
       IN <<m>> \o SeqOfSet(S \ {m})

\* seq[skip+1 .. skip+limit], clipped to the sequence
Slice(seq, skip, limit) ==
  LET lo == skip + 1
      hi == IF skip + limit < Len(seq) THEN skip + limit ELSE Len(seq)
  IN IF lo > hi THEN <<>> ELSE SubSeq(seq, lo, hi)

\* the stored record of id, Null when there is none
Stored(id) == IF id \in DOMAIN documents THEN documents[id] ELSE Null

\* the lookup by id alone, whatever the record's is_deleted flag
FindOneById(id, flag) ==
  IF id \in DOMAIN documents THEN documents[id] ELSE Null

\* find_one(id == id, is_deleted == flag) / select ... where id, is_deleted
FindOne(id, flag) ==
  IF id \in DOMAIN documents /\ documents[id].is_deleted = flag
  THEN documents[id] ELSE Null

\* ---------------------------------------------------------------- mappers
\* a Document that is born soft-deleted
NewDocumentDeleted(id, data, ts) ==
  [id |-> id, title |-> data.title, content |-> data.content,
   status |-> data.status, metadata |-> data.metadata,
   comments |-> data.comments, versions |-> <<>>,
   created_at |-> ts, updated_at |-> ts, is_deleted |-> TRUE]

\* Document built by the service from a DocumentCreateDTO
NewDocument(id, data, ts) ==
  [id |-> id, title |-> data.title, content |-> data.content,
   status |-> data.status, metadata |-> data.metadata,
   comments |-> data.comments, versions |-> <<>>,
   created_at |-> ts, updated_at |-> ts, is_deleted |-> FALSE]

\* MongoMapper.to_domain_document: every field, the embedded versions included
MongoToDomainDocument(mongo_doc) ==
  [id |-> mongo_doc.id, title |-> mongo_doc.title,
   content |-> mongo_doc.content, status |-> mongo_doc.status,
   metadata |-> mongo_doc.metadata, comments |-> mongo_doc.comments,
   versions |-> mongo_doc.versions, created_at |-> mongo_doc.created_at,
   updated_at |-> mongo_doc.updated_at, is_deleted |-> mongo_doc.is_deleted]

\* MongoMapper.to_mongo_document
ToMongoDocument(document) ==
  [id |-> document.id, title |-> document.title,
   content |-> document.content, status |-> document.status,
   metadata |-> document.metadata, comments |-> document.comments,
   versions |-> document.versions, created_at |-> document.created_at,
   updated_at |-> document.updated_at, is_deleted |-> document.is_deleted]

\* SQLMapper.to_domain_document: versions is set to the empty list
SQLToDomainDocument(sql_doc) ==
  [id |-> sql_doc.id, title |-> sql_doc.title, content |-> sql_doc.content,
   status |-> sql_doc.status, metadata |-> sql_doc.document_metadata,
   comments |-> sql_doc.comments, versions |-> <<>>,
   created_at |-> sql_doc.created_at, updated_at |-> sql_doc.updated_at,
   is_deleted |-> sql_doc.is_deleted]

\* SQLMapper.to_sql_document
ToSQLDocument(document) ==
  [id |-> document.id, title |-> document.title,
   content |-> document.content, status |-> document.status,
   document_metadata |-> document.metadata, comments |-> document.comments,
   created_at |-> document.created_at, updated_at |-> document.updated_at,
   is_deleted |-> document.is_deleted]

\* SQLMapper.to_domain_version
SQLToDomainVersion(sql_version) ==
  [version_id |-> sql_version.version_id, content |-> sql_version.content,
   metadata |-> sql_version.document_metadata,
   comments |-> sql_version.comments, timestamp |-> sql_version.timestamp]

\* the domain Document the injected adapter returns for a stored record
ToDomainDocument(stored) ==
  IF backend = "mongo" THEN MongoToDomainDocument(stored)
  ELSE SQLToDomainDocument(stored)

\* -------------------------------------------------- version snapshot, update
\* MongoDocumentAdapter.update: the DocumentVersion built from the record read
MongoSnapshot(mongo_doc, ts) ==
  [version_id |-> ts, content |-> mongo_doc.content,
   metadata |-> mongo_doc.metadata, comments |-> mongo_doc.comments,
   timestamp |-> ts]

\* the fields are applied first and the snapshot is taken from the result
MongoApplyUpdateThenSnapshot(mongo_doc, data, ts) ==
  LET applied == [mongo_doc EXCEPT
        !.title = IF data.title # None THEN data.title ELSE @,
        !.content = IF data.content # None THEN data.content ELSE @,
        !.status = IF data.status # None THEN data.status ELSE @,
        !.metadata = IF data.metadata # None THEN data.metadata ELSE @,
        !.comments = IF data.comments # None THEN data.comments ELSE @,
        !.updated_at = ts]
  IN [applied EXCEPT
        !.versions = Append(mongo_doc.versions, MongoSnapshot(applied, ts))]

\* MongoDocumentAdapter.update: append the snapshot, then apply the fields
\* of the DTO that are not None and set updated_at
MongoApplyUpdate(mongo_doc, data, ts) ==
  [mongo_doc EXCEPT
     !.versions = Append(mongo_doc.versions, MongoSnapshot(mongo_doc, ts)),
     !.title = IF data.title # None THEN data.title ELSE @,
     !.content = IF data.content # None THEN data.content ELSE @,
     !.status = IF data.status # None THEN data.status ELSE @,
     !.metadata = IF data.metadata # None THEN data.metadata ELSE @,
     !.comments = IF data.comments # None THEN data.comments ELSE @,
     !.updated_at = ts]

\* SQLDocumentAdapter.update: the SQLDocumentVersion built from the row read
SQLSnapshot(sql_doc, ts) ==
  [version_id |-> ts, document_id |-> sql_doc.id,
   content |-> sql_doc.content,
   document_metadata |-> sql_doc.document_metadata,
   comments |-> sql_doc.comments, timestamp |-> ts]

\* SQLDocumentAdapter.update: UPDATE ... SET of the supplied columns only
SQLApplyUpdate(sql_doc, data, ts) ==
  [sql_doc EXCEPT
     !.title = IF data.title # None THEN data.title ELSE @,
     !.content = IF data.content # None THEN data.content ELSE @,
     !.status = IF data.status # None THEN data.status ELSE @,
     !.document_metadata = IF data.metadata # None THEN data.metadata ELSE @,
     !.comments = IF data.comments # None THEN data.comments ELSE @,
     !.updated_at = ts]

\* ------------------------------------------------------------ list queries
\* rows of S ordered by updated_at, most recent first
RECURSIVE OrderByUpdatedAtDesc(_)
OrderByUpdatedAtDesc(S) ==
  IF S = {} THEN <<>>
  ELSE LET m == CHOOSE x \in S :
                  \A y \in S : documents[x].updated_at >= documents[y].updated_at
       IN <<m>> \o OrderByUpdatedAtDesc(S \ {m})

NotDeleted == {i \in DOMAIN documents : ~documents[i].is_deleted}

\* MongoDocumentAdapter.list_documents: find(is_deleted == False), no sort
\* (the collection's insertion order), skip, limit
MongoListDocuments(skip, limit) ==
  LET ids == Slice(SeqOfSet(NotDeleted), skip, limit)
  IN [k \in 1..Len(ids) |-> MongoToDomainDocument(documents[ids[k]])]

\* SQLDocumentAdapter.list_documents: order_by(updated_at.desc()), offset, limit
SQLListDocuments(skip, limit) ==
  LET ids == Slice(OrderByUpdatedAtDesc(NotDeleted), skip, limit)
  IN [k \in 1..Len(ids) |-> SQLToDomainDocument(documents[ids[k]])]

RepositoryListDocuments(skip, limit) ==
  IF backend = "mongo" THEN MongoListDocuments(skip, limit)
  ELSE SQLListDocuments(skip, limit)

\* ------------------------------------------------------------------- cache
DocumentKey(id) == <<"document", id>>
VersionsKey(id) == <<"document_versions", id>>
ListKey(skip, limit) == <<"documents", skip, limit>>

\* str(uuid) / UUID(str), datetime.isoformat() / datetime.fromisoformat(str)
Str(u) == <<"str", u>>
UUID(s) == s[2]
IsoFormat(d) == <<"iso", d>>
FromIsoFormat(s) == s[2]

\* RedisCacheAdapter._serialize_document fails with KeyError on the first
\* version: version['document'] is not a key of DocumentVersion.dict()
SerializeRaises(document) == document.versions # <<>>

\* RedisCacheAdapter._serialize_document, for a document it can serialize
SerializeDocument(document) ==
  [id |-> Str(document.id), title |-> document.title,
   content |-> document.content, status |-> document.status,
   metadata |-> document.metadata, comments |-> document.comments,
   versions |-> <<>>, created_at |-> IsoFormat(document.created_at),
   updated_at |-> IsoFormat(document.updated_at),
   is_deleted |-> document.is_deleted]

\* RedisCacheAdapter._deserialize_document
DeserializeDocument(data) ==
  [id |-> UUID(data.id), title |-> data.title, content |-> data.content,
   status |-> data.status, metadata |-> data.metadata,
   comments |-> data.comments, versions |-> data.versions,
   created_at |-> FromIsoFormat(data.created_at),
   updated_at |-> FromIsoFormat(data.updated_at),
   is_deleted |-> data.is_deleted]

\* redis.setex(key, ttl, value) and redis.delete(*keys).  With the server
\* down they raise RedisError, which every adapter method catches and logs,
\* and nothing is written
SetEx(key, value) ==
  IF redis_up
  THEN [k \in DOMAIN redis \cup {key} |-> IF k = key THEN value ELSE redis[k]]
  ELSE redis

Delete(keys) ==
  IF redis_up THEN [k \in DOMAIN redis \ keys |-> redis[k]] ELSE redis

\* redis.get(key) returned data: with the server down the RedisError is
\* caught and the adapter method returns None
Cached(key) == redis_up /\ key \in DOMAIN redis

\* redis.keys("documents:skip=*:limit=*"); no key is deleted when the call
\* raises RedisError
ListKeys ==
  IF redis_up THEN {k \in DOMAIN redis : k[1] = "documents"} ELSE {}

\* ------------------------------------------------------------------- tasks
Idle(t) == tasks[t].op = "idle"
AllIdle == \A t \in Tasks : Idle(t)
At(t, pc) == tasks[t].pc = pc

\* a new service call: its arguments, and the stored record at call time
NewTask(op, pc, id, data, window) ==
  [IdleTask EXCEPT !.op = op, !.pc = pc, !.id = id, !.data = data,
                   !.window = window, !.pre = Stored(id)]

\* task t goes on to pc
Goto(t, pc) ==
  /\ tasks' = [tasks EXCEPT ![t].pc = pc]
  /\ UNCHANGED <<last, acked>>

\* the call of task t returns value, or raises outcome
Finish(t, outcome, value) ==
  /\ tasks' = [tasks EXCEPT ![t] = IdleTask]
  /\ last' = [op |-> tasks[t].op, id |-> tasks[t].id, data |-> tasks[t].data,
              window |-> tasks[t].window, outcome |-> outcome,
              value |-> value, pre |-> tasks[t].pre,
              applied |-> tasks[t].applied,
              failures |-> tasks[t].failures,
              version_id |-> tasks[t].version_id]
  /\ acked' =
       IF outcome # "ok" THEN acked
       ELSE CASE tasks[t].op = "update" ->
                   [acked EXCEPT ![tasks[t].id].updates = @ + 1]
              [] tasks[t].op = "delete" ->
                   [acked EXCEPT ![tasks[t].id].deleted = TRUE]
              [] tasks[t].op = "restore" ->
                   [acked EXCEPT ![tasks[t].id].deleted = FALSE]
              [] OTHER -> acked

\* the value a service method returns once its cache steps are through
Result(t) ==
  CASE tasks[t].op = "delete" -> [success |-> TRUE]
    [] tasks[t].op = "get_versions" -> tasks[t].document.versions
    [] OTHER -> tasks[t].document

\* get_versions returns the list; get_version scans it for version_id and
\* raises DocumentNotFoundException("Version not found") when none matches
ReturnVersions(t, versions) ==
  IF tasks[t].op = "get_version"
  THEN LET matching == {k \in 1..Len(versions) :
                          versions[k].version_id = tasks[t].version_id}
       IN IF matching = {}
          THEN Finish(t, "DocumentNotFound", Null)
          ELSE Finish(t, "ok",
                      versions[CHOOSE k \in matching :
                                 \A j \in matching : k <= j])
  ELSE Finish(t, "ok", versions)

\* ------------------------------------------------------------ gRPC requests
\* the DocumentListDTO of the application layer: only skip is validated
ApplicationDocumentListDTOValid(skip, limit) == skip >= 0

\* the DocumentListDTO the servicer constructs (domain.dtos.document):
\* skip: Field(ge=0), limit: Field(ge=1, le=100)
DocumentListDTOValid(skip, limit) ==
  skip >= 0 /\ limit >= 1 /\ limit <= MaxLimit

\* ------------------------------------------------------- DocumentService calls
CallGetById(t, id) ==
  /\ Idle(t)
  /\ tasks' = [tasks EXCEPT ![t] =
                 NewTask("get_by_id", "cache.get_document", id, NoUpdate, <<0, 1>>)]
  /\ UNCHANGED <<backend, redis_up, faults, documents, document_versions, redis, now, next_id,
                 last, acked, update_log>>

\* create builds the Document (uuid4 id, utcnow timestamps, no versions)
CallCreate(t, data) ==
  /\ Idle(t)
  /\ next_id <= MaxDocs
  /\ now < MaxClock
  /\ tasks' = [tasks EXCEPT ![t] =
                 [NewTask("create", "repository.create", next_id, NoUpdate, <<0, 1>>)
                    EXCEPT !.document = NewDocument(next_id, data, now)]]
  /\ next_id' = next_id + 1
  /\ now' = now + 1
  /\ UNCHANGED <<backend, redis_up, faults, documents, document_versions, redis, last, acked, update_log>>

CallUpdate(t, id, data) ==
  /\ Idle(t)
  /\ now < MaxClock
  /\ tasks' = [tasks EXCEPT ![t] =
                 NewTask("update", "repository.get_by_id", id, data, <<0, 1>>)]
  /\ UNCHANGED <<backend, redis_up, faults, documents, document_versions, redis, now, next_id,
                 last, acked, update_log>>

CallDelete(t, id) ==
  /\ Idle(t)
  /\ now < MaxClock
  /\ tasks' = [tasks EXCEPT ![t] =
                 NewTask("delete", "repository.delete", id, NoUpdate, <<0, 1>>)]
  /\ UNCHANGED <<backend, redis_up, faults, documents, document_versions, redis, now, next_id,
                 last, acked, update_log>>

CallRestore(t, id) ==
  /\ Idle(t)
  /\ now < MaxClock
  /\ tasks' = [tasks EXCEPT ![t] =
                 NewTask("restore", "repository.restore", id, NoUpdate, <<0, 1>>)]
  /\ UNCHANGED <<backend, redis_up, faults, documents, document_versions, redis, now, next_id,
                 last, acked, update_log>>

CallListDocuments(t, window) ==
  /\ Idle(t)
  /\ tasks' = [tasks EXCEPT ![t] =
                 NewTask("list_documents", "cache.get_document_list", 0, NoUpdate, window)]
  /\ UNCHANGED <<backend, redis_up, faults, documents, document_versions, redis, now, next_id,
                 last, acked, update_log>>

CallGetVersions(t, id) ==
  /\ Idle(t)
  /\ tasks' = [tasks EXCEPT ![t] =
                 NewTask("get_versions", "cache.get_document_versions", id, NoUpdate, <<0, 1>>)]
  /\ UNCHANGED <<backend, redis_up, faults, documents, document_versions, redis, now, next_id,
                 last, acked, update_log>>

\* get_version delegates to get_versions
CallGetVersion(t, id, version_id) ==
  /\ Idle(t)
  /\ tasks' = [tasks EXCEPT ![t] =
                 [NewTask("get_version", "cache.get_document_versions", id,
                          NoUpdate, <<0, 1>>)
                    EXCEPT !.version_id = version_id]]
  /\ UNCHANGED <<backend, redis_up, faults, documents, document_versions, redis, now, next_id,
                 last, acked, update_log>>

\* DocumentServiceServicer.ListDocuments: the DTO is constructed first; a
\* ValidationError is answered at once, with no call of the service
ListDocuments(t, window) ==
  IF DocumentListDTOValid(window[1], window[2])
  THEN CallListDocuments(t, window)
  ELSE /\ Idle(t)
       /\ last' = [NoCall EXCEPT !.op = "list_documents", !.window = window,
                                 !.outcome = "ValidationError"]
       /\ UNCHANGED <<backend, redis_up, faults, documents, document_versions, redis, now,
                      next_id, tasks, acked, update_log>>

\* ----------------------------------------------------- RedisCacheAdapter steps
\* the cache is not consulted: get_by_id goes to the repository
CacheGetDocumentSkipped(t) ==
  /\ At(t, "cache.get_document")
  /\ Goto(t, "repository.get_by_id")
  /\ UNCHANGED <<backend, redis_up, faults, documents, document_versions, redis, now, next_id,
                 update_log, calls>>

\* get_document: a hit returns the deserialized document, and get_by_id
\* returns it without a repository call
CacheGetDocument(t) ==
  /\ At(t, "cache.get_document")
  /\ IF Cached(DocumentKey(tasks[t].id))
     THEN Finish(t, "ok", DeserializeDocument(redis[DocumentKey(tasks[t].id)]))
     ELSE Goto(t, "repository.get_by_id")
  /\ UNCHANGED <<backend, redis_up, faults, documents, document_versions, redis, now, next_id,
                 update_log, calls>>

\* set_document stamps the entry with the time of the cache write
CacheSetDocumentStamped(t) ==
  /\ At(t, "cache.set_document")
  /\ IF SerializeRaises(tasks[t].document)
     THEN /\ Finish(t, "KeyError", Null)
          /\ UNCHANGED redis
     ELSE /\ redis' = SetEx(DocumentKey(tasks[t].document.id),
                            SerializeDocument([tasks[t].document
                                                 EXCEPT !.updated_at = now]))
          /\ IF tasks[t].op = "get_by_id"
             THEN Finish(t, "ok", Result(t))
             ELSE Goto(t, "cache.set_document_versions")
  /\ UNCHANGED <<backend, redis_up, faults, documents, document_versions, now, next_id, update_log, calls>>

\* set_document: the KeyError of _serialize_document is no RedisError and
\* leaves the service method; otherwise setex, and the method goes on
CacheSetDocument(t) ==
  /\ At(t, "cache.set_document")
  /\ IF SerializeRaises(tasks[t].document)
     THEN /\ Finish(t, "KeyError", Null)
          /\ UNCHANGED redis
     ELSE /\ redis' = SetEx(DocumentKey(tasks[t].document.id),
                            SerializeDocument(tasks[t].document))
          /\ IF tasks[t].op = "get_by_id"
             THEN Finish(t, "ok", Result(t))
             ELSE Goto(t, "cache.set_document_versions")
  /\ UNCHANGED <<backend, redis_up, faults, documents, document_versions, now, next_id, update_log, calls>>

\* get_document_versions: a cached "[]" deserializes to the empty list, which
\* the service treats as a miss (if cached_versions:)
CacheGetDocumentVersions(t) ==
  /\ At(t, "cache.get_document_versions")
  /\ IF /\ Cached(VersionsKey(tasks[t].id))
        /\ redis[VersionsKey(tasks[t].id)] # <<>>
     THEN ReturnVersions(t, redis[VersionsKey(tasks[t].id)])
     ELSE Goto(t, "repository.get_by_id")
  /\ UNCHANGED <<backend, redis_up, faults, documents, document_versions, redis, now, next_id,
                 update_log, calls>>

\* set_document_versions: KeyError on the first version (version_data['document']),
\* "[]" is stored for the empty list
CacheSetDocumentVersions(t) ==
  /\ At(t, "cache.set_document_versions")
  /\ IF tasks[t].document.versions # <<>>
     THEN /\ Finish(t, "KeyError", Null)
          /\ UNCHANGED redis
     ELSE /\ redis' = SetEx(VersionsKey(tasks[t].id), <<>>)
          /\ IF tasks[t].op \in {"get_versions", "get_version"}
             THEN ReturnVersions(t, tasks[t].document.versions)
             ELSE Goto(t, "cache.invalidate_document_list")
  /\ UNCHANGED <<backend, redis_up, faults, documents, document_versions, now, next_id, update_log, calls>>

CacheInvalidateDocument(t) ==
  /\ At(t, "cache.invalidate_document")
  /\ redis' = Delete({DocumentKey(tasks[t].id)})
  /\ Goto(t, "cache.invalidate_document_versions")
  /\ UNCHANGED <<backend, redis_up, faults, documents, document_versions, now, next_id, update_log, calls>>

CacheInvalidateDocumentVersions(t) ==
  /\ At(t, "cache.invalidate_document_versions")
  /\ redis' = Delete({VersionsKey(tasks[t].id)})
  /\ Goto(t, "cache.invalidate_document_list")
  /\ UNCHANGED <<backend, redis_up, faults, documents, document_versions, now, next_id, update_log, calls>>

\* invalidate_document_list, first await: keys(pattern); with no key the
\* method is through and the service method returns
CacheInvalidateDocumentListKeys(t) ==
  /\ At(t, "cache.invalidate_document_list")
  /\ IF ListKeys = {}
     THEN Finish(t, "ok", Result(t))
     ELSE /\ tasks' = [tasks EXCEPT ![t].keys = ListKeys,
                                    ![t].pc = "cache.invalidate_document_list.delete"]
          /\ UNCHANGED <<last, acked>>
  /\ UNCHANGED <<backend, redis_up, faults, documents, document_versions, redis, now, next_id,
                 update_log, calls>>

\* invalidate_document_list, second await: delete(*keys) of the keys scanned
CacheInvalidateDocumentListDelete(t) ==
  /\ At(t, "cache.invalidate_document_list.delete")
  /\ redis' = Delete(tasks[t].keys)
  /\ Finish(t, "ok", Result(t))
  /\ UNCHANGED <<backend, redis_up, faults, documents, document_versions, now, next_id, update_log, calls>>

\* get_document_list: a hit with a non-empty list is returned (if cached_documents:)
CacheGetDocumentList(t) ==
  /\ At(t, "cache.get_document_list")
  /\ LET key == ListKey(tasks[t].window[1], tasks[t].window[2])
     IN IF Cached(key) /\ redis[key] # <<>>
        THEN Finish(t, "ok", [k \in 1..Len(redis[key]) |->
                                 DeserializeDocument(redis[key][k])])
        ELSE Goto(t, "repository.list_documents")
  /\ UNCHANGED <<backend, redis_up, faults, documents, document_versions, redis, now, next_id,
                 update_log, calls>>

\* set_document_list: serializes every document, KeyError on one with versions
CacheSetDocumentList(t) ==
  /\ At(t, "cache.set_document_list")
  /\ LET docs == tasks[t].document.items
         key == ListKey(tasks[t].window[1], tasks[t].window[2])
     IN IF \E k \in 1..Len(docs) : SerializeRaises(docs[k])
        THEN /\ Finish(t, "KeyError", Null)
             /\ UNCHANGED redis
        ELSE /\ redis' = SetEx(key, [k \in 1..Len(docs) |-> SerializeDocument(docs[k])])
             /\ Finish(t, "ok", docs)
  /\ UNCHANGED <<backend, redis_up, faults, documents, document_versions, now, next_id, update_log, calls>>

\* an entry reaches its time to live (settings.CACHE_TTL)
Expire(key) ==
  /\ key \in DOMAIN redis
  /\ redis' = Delete({key})
  /\ UNCHANGED <<backend, redis_up, faults, documents, document_versions, now, next_id, tasks,
                 last, acked, update_log, calls>>

\* ------------------------------------------------------- repository steps
\* get_by_id of the injected adapter: only a non-deleted record is returned.
\* get_by_id and get_versions raise DocumentNotFoundException on None, and so
\* does update before it calls repository.update
RepositoryGetById(t) ==
  /\ At(t, "repository.get_by_id")
  /\ LET found == FindOne(tasks[t].id, FALSE)
     IN IF found = Null
        THEN Finish(t, "DocumentNotFound", Null)
        ELSE /\ tasks' = [tasks EXCEPT
                  ![t].document = ToDomainDocument(found),
                  ![t].attempt = 1,
                  ![t].pc = CASE tasks[t].op = "get_by_id" -> "cache.set_document"
                              [] tasks[t].op = "update" -> "repository.update"
                              [] OTHER -> "cache.set_document_versions"]
             /\ UNCHANGED <<last, acked>>
  /\ UNCHANGED <<backend, redis_up, faults, documents, document_versions, redis, now, next_id,
                 update_log, calls>>

\* create: insert of the mapped record.  The document-store adapter returns the
\* Document it was given, the relational adapter maps the row it selects back
RepositoryCreate(t) ==
  /\ At(t, "repository.create")
  /\ LET document == tasks[t].document
         stored == IF backend = "mongo" THEN ToMongoDocument(document)
                   ELSE ToSQLDocument(document)
     IN /\ documents' = [i \in DOMAIN documents \cup {document.id} |->
                            IF i = document.id THEN stored ELSE documents[i]]
        /\ tasks' = [tasks EXCEPT
             ![t].document = IF backend = "mongo" THEN document
                             ELSE SQLToDomainDocument(stored),
             ![t].applied = TRUE,
             ![t].pc = "cache.set_document"]
  /\ UNCHANGED <<backend, redis_up, faults, document_versions, redis, now, next_id, last, acked, update_log, calls>>

\* update, first await: find_one / select of the non-deleted record; None makes
\* the service raise DocumentNotFoundException.  On a record the adapter builds
\* the snapshot from what it read: the document-store adapter appends it to its
\* in-memory copy and applies the fields, the relational adapter adds the
\* version row to its transaction
RepositoryUpdateFind(t) ==
  /\ At(t, "repository.update")
  /\ LET found == FindOne(tasks[t].id, FALSE)
     IN IF found = Null
        THEN /\ Finish(t, "DocumentNotFound", Null)
             /\ UNCHANGED now
        ELSE /\ tasks' = [tasks EXCEPT
                  ![t].row = IF backend = "mongo"
                             THEN MongoApplyUpdate(found, tasks[t].data, now)
                             ELSE SQLSnapshot(found, now),
                  ![t].ts = now,
                  ![t].pc = "repository.update.save"]
             /\ now' = now + 1
             /\ UNCHANGED <<last, acked>>
  /\ UNCHANGED <<backend, redis_up, faults, documents, document_versions, redis, next_id, update_log, calls>>

\* update, second await.  Document store: save() writes the whole in-memory
\* copy over the stored record.  Relational: UPDATE ... WHERE id AND NOT
\* is_deleted RETURNING on the row as it is now, then the commit that makes the
\* version row visible; with no row returned the mapper fails on None and the
\* transaction is rolled back
RepositoryUpdateSave(t) ==
  /\ At(t, "repository.update.save")
  /\ LET id == tasks[t].id
         current == FindOne(id, FALSE)
     IN IF backend = "sql" /\ current = Null
        THEN /\ Finish(t, "AttributeError", Null)
             /\ UNCHANGED <<documents, document_versions, update_log>>
        ELSE LET written == IF backend = "mongo" THEN tasks[t].row
                            ELSE SQLApplyUpdate(current, tasks[t].data, tasks[t].ts)
             IN /\ documents' = [documents EXCEPT ![id] = written]
                /\ document_versions' =
                     IF backend = "mongo" THEN document_versions
                     ELSE Append(document_versions, tasks[t].row)
                /\ update_log' = [update_log EXCEPT ![id] =
                     Append(@, [data |-> tasks[t].data,
                                before |-> ToDomainDocument(documents[id]),
                                after |-> ToDomainDocument(written)])]
                /\ tasks' = [tasks EXCEPT
                     ![t].document = ToDomainDocument(written),
                     ![t].applied = TRUE,
                     ![t].pc = "cache.set_document"]
                /\ UNCHANGED <<last, acked>>
  /\ UNCHANGED <<backend, redis_up, faults, redis, now, next_id, calls>>

\* a delete that finds no record evicts the cached list windows
RepositoryDeleteFindEvicts(t) ==
  /\ At(t, "repository.delete")
  /\ LET found == FindOne(tasks[t].id, FALSE)
     IN IF found = Null
        THEN /\ Finish(t, "DocumentNotFound", Null)
             /\ redis' = [k \in DOMAIN redis \ ListKeys |-> redis[k]]
             /\ UNCHANGED now
        ELSE /\ tasks' = [tasks EXCEPT
                  ![t].row = [found EXCEPT !.is_deleted = TRUE, !.updated_at = now],
                  ![t].ts = now,
                  ![t].pc = "repository.delete.save"]
             /\ now' = now + 1
             /\ UNCHANGED <<last, acked, redis>>
  /\ UNCHANGED <<backend, redis_up, faults, documents, document_versions, next_id, update_log, calls>>

\* delete, first await: find_one / select of the non-deleted record; False
\* (no such record) makes the service raise DocumentNotFoundException
RepositoryDeleteFind(t) ==
  /\ At(t, "repository.delete")
  /\ LET found == FindOne(tasks[t].id, FALSE)
     IN IF found = Null
        THEN /\ Finish(t, "DocumentNotFound", Null)
             /\ UNCHANGED now
        ELSE /\ tasks' = [tasks EXCEPT
                  ![t].row = [found EXCEPT !.is_deleted = TRUE, !.updated_at = now],
                  ![t].ts = now,
                  ![t].pc = "repository.delete.save"]
             /\ now' = now + 1
             /\ UNCHANGED <<last, acked>>
  /\ UNCHANGED <<backend, redis_up, faults, documents, document_versions, redis, next_id, update_log, calls>>

\* the record is removed from the store instead of being flagged
RepositoryDeleteSaveErase(t) ==
  /\ At(t, "repository.delete.save")
  /\ documents' = [i \in DOMAIN documents \ {tasks[t].id} |-> documents[i]]
  /\ tasks' = [tasks EXCEPT ![t].applied = TRUE,
                            ![t].pc = "cache.invalidate_document"]
  /\ UNCHANGED <<backend, redis_up, faults, document_versions, redis, now, next_id, last, acked, update_log, calls>>

\* delete, second await.  Document store: save() of the in-memory copy.
\* Relational: UPDATE ... WHERE id SET is_deleted, updated_at, and commit
RepositoryDeleteSave(t) ==
  /\ At(t, "repository.delete.save")
  /\ LET id == tasks[t].id
     IN documents' = [documents EXCEPT ![id] =
          IF backend = "mongo" THEN tasks[t].row
          ELSE [@ EXCEPT !.is_deleted = TRUE, !.updated_at = tasks[t].ts]]
  /\ tasks' = [tasks EXCEPT ![t].applied = TRUE,
                            ![t].pc = "cache.invalidate_document"]
  /\ UNCHANGED <<backend, redis_up, faults, document_versions, redis, now, next_id, last, acked, update_log, calls>>

\* restore, first await.  Document store: find_one of the deleted record, the
\* flag is cleared on the in-memory copy.  Relational: one UPDATE ... WHERE id
\* AND is_deleted RETURNING, the select of the row, and the commit
RepositoryRestore(t) ==
  /\ At(t, "repository.restore")
  /\ LET id == tasks[t].id
         found == FindOne(id, TRUE)
         restored == [found EXCEPT !.is_deleted = FALSE, !.updated_at = now]
     IN IF found = Null
        THEN /\ Finish(t, "DocumentNotFound", Null)
             /\ UNCHANGED <<documents, now>>
        ELSE /\ now' = now + 1
             /\ UNCHANGED <<last, acked>>
             /\ IF backend = "mongo"
                THEN /\ tasks' = [tasks EXCEPT
                          ![t].row = restored, ![t].ts = now,
                          ![t].pc = "repository.restore.save"]
                     /\ UNCHANGED documents
                ELSE /\ documents' = [documents EXCEPT ![id] = restored]
                     /\ tasks' = [tasks EXCEPT
                          ![t].document = SQLToDomainDocument(restored),
                          ![t].ts = now, ![t].applied = TRUE,
                          ![t].pc = "cache.set_document"]
  /\ UNCHANGED <<backend, redis_up, faults, document_versions, redis, next_id, update_log, calls>>

\* restore, second await of the document-store adapter: save()
RepositoryRestoreSave(t) ==
  /\ At(t, "repository.restore.save")
  /\ documents' = [documents EXCEPT ![tasks[t].id] = tasks[t].row]
  /\ tasks' = [tasks EXCEPT
       ![t].document = MongoToDomainDocument(tasks[t].row),
       ![t].applied = TRUE,
       ![t].pc = "cache.set_document"]
  /\ UNCHANGED <<backend, redis_up, faults, document_versions, redis, now, next_id, last, acked, update_log, calls>>

\* list_documents of the injected adapter
RepositoryListDocumentsStep(t) ==
  /\ At(t, "repository.list_documents")
  /\ tasks' = [tasks EXCEPT
       ![t].document = [items |-> RepositoryListDocuments(tasks[t].window[1],
                                                          tasks[t].window[2])],
       ![t].pc = "cache.set_document_list"]
  /\ UNCHANGED <<backend, redis_up, faults, documents, document_versions, redis, now, next_id,
                 last, acked, update_log, calls>>

\* ------------------------------------------------------------ store faults
\* @retry(stop=stop_after_attempt(3)) on every MongoDocumentAdapter method
MaxAttempts == 3

\* the awaits on the store
RepositoryPcs ==
  {"repository.get_by_id", "repository.create", "repository.update",
   "repository.update.save", "repository.delete", "repository.delete.save",
   "repository.restore", "repository.restore.save",
   "repository.list_documents"}

\* a retried adapter method starts again at its first await
RetryStart(pc) ==
  CASE pc = "repository.update.save" -> "repository.update"
    [] pc = "repository.delete.save" -> "repository.delete"
    [] pc = "repository.restore.save" -> "repository.restore"
    [] OTHER -> pc

\* one attempt more than stop_after_attempt allows
RetriesOnceMore(t) ==
  backend = "mongo" /\ tasks[t].attempt <= MaxAttempts

\* whether the adapter method of task t is run again after a failed attempt:
\* only MongoDocumentAdapter carries @retry, and tenacity stops after
\* MaxAttempts attempts
Retries(t) ==
  backend = "mongo" /\ tasks[t].attempt < MaxAttempts

\* what a raising store call does to the call of task t.  Document store
\* (ConnectionFailure, OperationFailure): tenacity runs the adapter method
\* again, and after the third failed attempt raises its RetryError, which no
\* caller catches.  Relational (SQLAlchemyError): logged and raised again,
\* and the service, which catches BaseAppException only, lets it pass
RetryOrRaise(t) ==
  IF Retries(t)
  THEN /\ tasks' = [tasks EXCEPT ![t].pc = RetryStart(@),
                                 ![t].row = Null,
                                 ![t].attempt = @ + 1,
                                 ![t].failures = @ + 1]
       /\ UNCHANGED <<last, acked>>
  ELSE /\ tasks' = [tasks EXCEPT ![t] = IdleTask]
       /\ last' = [op |-> tasks[t].op, id |-> tasks[t].id,
                   data |-> tasks[t].data, window |-> tasks[t].window,
                   outcome |-> IF backend = "mongo" THEN "RetryError"
                               ELSE "SQLAlchemyError",
                   value |-> Null, pre |-> tasks[t].pre,
                   applied |-> tasks[t].applied,
                   failures |-> tasks[t].failures + 1,
                   version_id |-> tasks[t].version_id]
       /\ UNCHANGED acked

\* the version row flushed by the relational update stays when its UPDATE
\* statement fails
StoreRaisesAfterFlush(t) ==
  /\ tasks[t].pc \in RepositoryPcs
  /\ RetryOrRaise(t)
  /\ document_versions' =
       IF backend = "sql" /\ tasks[t].pc = "repository.update.save"
       THEN Append(document_versions, tasks[t].row)
       ELSE document_versions
  /\ UNCHANGED <<backend, redis_up, documents, redis, now, next_id,
                 update_log, calls>>

\* the store call task t awaits raises a connectivity or operation error and
\* nothing is written: the document store writes a record with one save(),
\* the relational adapter works in one transaction, which is rolled back
StoreRaises(t) ==
  /\ tasks[t].pc \in RepositoryPcs
  /\ RetryOrRaise(t)
  /\ UNCHANGED <<backend, redis_up, documents, document_versions, redis, now,
                 next_id, update_log, calls>>

\* the awaits of MongoDocumentAdapter on save()
MongoSavePcs ==
  {"repository.update.save", "repository.delete.save",
   "repository.restore.save"}

\* save() of the document store reaches the server and is applied there, and
\* the connection fails before the answer arrives: the record is written and
\* the adapter method sees ConnectionFailure, so tenacity runs it again from
\* its first await (or raises RetryError after the third attempt)
StoreAppliesThenRaises(t) ==
  /\ backend = "mongo"
  /\ tasks[t].pc \in MongoSavePcs
  /\ LET id == tasks[t].id
     IN /\ documents' = [documents EXCEPT ![id] = tasks[t].row]
        /\ update_log' =
             IF tasks[t].op = "update"
             THEN [update_log EXCEPT ![id] =
                     Append(@, [data |-> tasks[t].data,
                                before |-> ToDomainDocument(documents[id]),
                                after |-> ToDomainDocument(tasks[t].row)])]
             ELSE update_log
  /\ IF Retries(t)
     THEN /\ tasks' = [tasks EXCEPT ![t].pc = RetryStart(@),
                                    ![t].row = Null,
                                    ![t].applied = TRUE,
                                    ![t].attempt = @ + 1,
                                    ![t].failures = @ + 1]
          /\ UNCHANGED <<last, acked>>
     ELSE /\ tasks' = [tasks EXCEPT ![t] = IdleTask]
          /\ last' = [op |-> tasks[t].op, id |-> tasks[t].id,
                      data |-> tasks[t].data, window |-> tasks[t].window,
                      outcome |-> "RetryError", value |-> Null,
                      pre |-> tasks[t].pre, applied |-> TRUE,
                      failures |-> tasks[t].failures + 1,
                      version_id |-> tasks[t].version_id]
          /\ UNCHANGED acked
  /\ UNCHANGED <<backend, redis_up, document_versions, redis, now, next_id,
                 calls>>

\* one of the faults still to come happens after the save task t awaits was
\* applied
StoreLateFault(t) ==
  /\ faults > 0
  /\ faults' = faults - 1
  /\ StoreAppliesThenRaises(t)

\* one of the faults still to come happens at the store call task t awaits
StoreFault(t) ==
  /\ faults > 0
  /\ faults' = faults - 1
  /\ StoreRaises(t)

\* ------------------------------------------------------------ specification
\* nothing stored, nothing cached, no call made
EmptyStore ==
  /\ backend \in Backends
  /\ documents = <<>>
  /\ document_versions = <<>>
  /\ redis = <<>>
  /\ now = 0
  /\ next_id = 1
  /\ tasks = [t \in Tasks |-> IdleTask]
  /\ last = NoCall
  /\ acked = [i \in Ids |-> [updates |-> 0, deleted |-> FALSE]]
  /\ update_log = [i \in Ids |-> <<>>]
  /\ calls = 0

Init == EmptyStore /\ redis_up = TRUE /\ faults = 0

\* a client issues a service call on task t
Call(t) ==
  \/ \E id \in Ids : CallGetById(t, id)
  \/ \E data \in CreateDTOs : CallCreate(t, data)
  \/ \E id \in Ids, data \in UpdateDTOs : CallUpdate(t, id, data)
  \/ \E id \in Ids : CallDelete(t, id)
  \/ \E id \in Ids : CallRestore(t, id)
  \/ \E window \in RequestWindows : ListDocuments(t, window)
  \/ \E id \in Ids : CallGetVersions(t, id)

\* the in-flight call of task t passes its next await
Step(t) ==
  \/ CacheGetDocument(t)
  \/ CacheSetDocument(t)
  \/ CacheGetDocumentVersions(t)
  \/ CacheSetDocumentVersions(t)
  \/ CacheInvalidateDocument(t)
  \/ CacheInvalidateDocumentVersions(t)
  \/ CacheInvalidateDocumentListKeys(t)
  \/ CacheInvalidateDocumentListDelete(t)
  \/ CacheGetDocumentList(t)
  \/ CacheSetDocumentList(t)
  \/ RepositoryGetById(t)
  \/ RepositoryCreate(t)
  \/ RepositoryUpdateFind(t)
  \/ RepositoryUpdateSave(t)
  \/ RepositoryDeleteFind(t)
  \/ RepositoryDeleteSave(t)
  \/ RepositoryRestore(t)
  \/ RepositoryRestoreSave(t)
  \/ RepositoryListDocumentsStep(t)

\* the calls are issued one after another
Next ==
  \/ AllIdle /\ Call("t1") /\ UNCHANGED calls
  \/ Step("t1")

Spec == Init /\ [][Next]_vars

\* the calls of the tasks interleave at their awaits
\* a client issues one of at most MaxCalls calls, whatever else is in flight
ConcCall(t) ==
  /\ calls < MaxCalls
  /\ calls' = calls + 1
  /\ Call(t)

NextConc ==
  \/ \E t \in Tasks : ConcCall(t)
  \/ \E t \in Tasks : Step(t)
  \/ \E key \in DOMAIN redis : Expire(key)

\* the state one create call leaves behind: the document stored, and cached
\* with its empty version list
AfterCreate ==
  /\ backend \in Backends
  /\ \E data \in CreateDTOs :
       LET document == NewDocument(1, data, 0)
       IN /\ documents = (1 :> (IF backend = "mongo" THEN ToMongoDocument(document)
                                 ELSE ToSQLDocument(document)))
          /\ redis = (DocumentKey(1) :> SerializeDocument(document))
                       @@ (VersionsKey(1) :> <<>>)
          /\ last = [NoCall EXCEPT !.op = "create", !.id = 1, !.outcome = "ok",
                                   !.value = document, !.applied = TRUE]
  /\ document_versions = <<>>
  /\ now = 1
  /\ next_id = 2
  /\ tasks = [t \in Tasks |-> IdleTask]
  /\ acked = [i \in Ids |-> [updates |-> 0, deleted |-> FALSE]]
  /\ update_log = [i \in Ids |-> <<>>]
  /\ calls = 0

InitConc == AfterCreate /\ redis_up = TRUE /\ faults = 0

SpecConc == InitConc /\ [][NextConc]_vars

\* the Redis server is down from the start and stays down: every cache call
\* raises RedisError, so invalidate_document_list never has keys to delete
InitCacheDown == EmptyStore /\ redis_up = FALSE /\ faults = 0

StepCacheDown(t) ==
  \/ CacheGetDocument(t)
  \/ CacheSetDocument(t)
  \/ CacheGetDocumentVersions(t)
  \/ CacheSetDocumentVersions(t)
  \/ CacheInvalidateDocument(t)
  \/ CacheInvalidateDocumentVersions(t)
  \/ CacheInvalidateDocumentListKeys(t)
  \/ CacheGetDocumentList(t)
  \/ CacheSetDocumentList(t)
  \/ RepositoryGetById(t)
  \/ RepositoryCreate(t)
  \/ RepositoryUpdateFind(t)
  \/ RepositoryUpdateSave(t)
  \/ RepositoryDeleteFind(t)
  \/ RepositoryDeleteSave(t)
  \/ RepositoryRestore(t)
  \/ RepositoryRestoreSave(t)
  \/ RepositoryListDocumentsStep(t)

NextCacheDown ==
  \/ AllIdle /\ Call("t1") /\ UNCHANGED calls
  \/ StepCacheDown("t1")

SpecCacheDown == InitCacheDown /\ [][NextCacheDown]_vars

\* one document stored, then at most MaxCalls calls one after another, while
\* up to MaxFaults store calls fail
InitFaults == AfterCreate /\ redis_up = TRUE /\ faults = MaxFaults

NextFaults ==
  \/ AllIdle /\ ConcCall("t1")
  \/ Step("t1")
  \/ StoreFault("t1")

SpecFaults == InitFaults /\ [][NextFaults]_vars

\* the store may fail at any call, any number of times; every store call and
\* every cache call of a call in flight returns, with a value or an error
StoreMayFail(t) == StoreRaises(t) /\ UNCHANGED faults

NextUnreliable ==
  \/ AllIdle /\ ConcCall("t1")
  \/ Step("t1")
  \/ StoreMayFail("t1")

SpecUnreliable ==
  /\ InitConc
  /\ [][NextUnreliable]_vars
  /\ WF_vars(Step("t1") \/ StoreMayFail("t1"))

\* one document stored, then at most MaxCalls calls one after another,
\* get_version among them
NextVersions ==
  \/ /\ AllIdle
     /\ calls < MaxCalls
     /\ calls' = calls + 1
     /\ \/ Call("t1")
        \/ \E id \in Ids, version_id \in VersionIds :
             CallGetVersion("t1", id, version_id)
  \/ Step("t1")

SpecVersions == InitConc /\ [][NextVersions]_vars

\* -------------------------------------------------- DocumentServiceServicer
\* the service operations that have an RPC
RpcOps ==
  {"get_by_id", "create", "update", "delete", "restore", "list_documents"}

\* the classes an exception is an instance of: DocumentNotFoundException is
\* a BaseAppException, pydantic's ValidationError is a ValueError
Bases(exception) ==
  CASE exception = "DocumentNotFound" ->
         {"DocumentNotFoundException", "BaseAppException", "Exception"}
    [] exception = "ValidationError" ->
         {"ValidationError", "ValueError", "Exception"}
    [] exception = "ValueError" -> {"ValueError", "Exception"}
    [] OTHER -> {"Exception"}

\* every handler has the except clauses of CreateDocument: none for
\* DocumentNotFoundException
ClausesOfCreate(op) ==
  << [class |-> "ValidationError", code |-> "INVALID_ARGUMENT",
      details |-> "validation"],
     [class |-> "BaseAppException", code |-> "INTERNAL", details |-> "str"],
     [class |-> "Exception", code |-> "INTERNAL",
      details |-> "Internal server error"] >>

\* the except clauses of the handler of op, in order, with the status code
\* and the details each sets ("validation": the first error of the
\* ValidationError, "str": str(e))
Clauses(op) ==
  IF op \in {"create", "list_documents"}
  THEN << [class |-> "ValidationError", code |-> "INVALID_ARGUMENT",
           details |-> "validation"],
          [class |-> "BaseAppException", code |-> "INTERNAL",
           details |-> "str"],
          [class |-> "Exception", code |-> "INTERNAL",
           details |-> "Internal server error"] >>
  ELSE << [class |-> "ValidationError", code |-> "INVALID_ARGUMENT",
           details |-> "validation"],
          [class |-> "ValueError", code |-> "INVALID_ARGUMENT",
           details |-> "Invalid document ID format"],
          [class |-> "DocumentNotFoundException", code |-> "NOT_FOUND",
           details |-> "str"],
          [class |-> "BaseAppException", code |-> "INTERNAL",
           details |-> "str"],
          [class |-> "Exception", code |-> "INTERNAL",
           details |-> "Internal server error"] >>

\* what the handler of op reports for an exception: the first clause that
\* matches
Report(op, exception) ==
  LET clauses == Clauses(op)
      first == CHOOSE k \in 1..Len(clauses) :
                 /\ clauses[k].class \in Bases(exception)
                 /\ \A j \in 1..(k - 1) : clauses[j].class \notin Bases(exception)
  IN clauses[first]

\* a request the handler rejects before it calls the service: a malformed id
\* (DocumentIdDTO.from_string raises ValueError), or a CreateDocumentRequest
\* with an empty title (DocumentCreateDTO raises ValidationError)
InvalidRequest(t) ==
  /\ Idle(t)
  /\ \/ \E op \in {"get_by_id", "update", "delete", "restore"} :
          last' = [NoCall EXCEPT !.op = op, !.outcome = "ValueError"]
     \/ last' = [NoCall EXCEPT !.op = "create", !.outcome = "ValidationError"]
  /\ UNCHANGED <<backend, redis_up, faults, documents, document_versions,
                 redis, now, next_id, tasks, acked, update_log, calls>>

\* one document stored, then requests one after another, valid (at most
\* MaxCalls) or not, while up to MaxFaults store calls fail
NextRpc ==
  \/ AllIdle /\ ConcCall("t1")
  \/ AllIdle /\ InvalidRequest("t1")
  \/ Step("t1")
  \/ StoreFault("t1")

SpecRpc == InitFaults /\ [][NextRpc]_vars

\* one document stored, then at most MaxCalls calls one after another, while
\* up to MaxFaults store calls fail, before or after the store applied them
NextLateFaults ==
  \/ AllIdle /\ ConcCall("t1")
  \/ Step("t1")
  \/ StoreFault("t1")
  \/ StoreLateFault("t1")

SpecLateFaults == InitFaults /\ [][NextLateFaults]_vars

\* =================================================================== claims
\* the versions stored for id, oldest first: the embedded list of the
\* document-store record, the document_versions rows of the relational one
StoredVersions(id) ==
  IF backend = "mongo" THEN documents[id].versions
  ELSE LET rows == SelectSeq(document_versions,
                             LAMBDA v : v.document_id = id)
       IN [k \in 1..Len(rows) |-> SQLToDomainVersion(rows[k])]

\* the editable fields of a Document
Fields(document) ==
  [title |-> document.title, content |-> document.content,
   status |-> document.status, metadata |-> document.metadata,
   comments |-> document.comments]

\* the editable fields after the DTO's supplied fields are applied to them
ApplyFields(fields, data) ==
  [f \in DOMAIN fields |-> IF data[f] # None THEN data[f] ELSE fields[f]]

\* C1: when get_versions(id) returns for a live document, the list it
\* returns has one version per update call on id that returned successfully
C1_OneVersionPerSuccessfulUpdate ==
  (/\ AllIdle
   /\ last.op = "get_versions"
   /\ last.outcome = "ok"
   /\ FindOne(last.id, FALSE) # Null)
  => Len(last.value) = acked[last.id].updates

\* C2: the k-th stored version of a document holds the content, metadata
\* and comments the document had just before its k-th applied update, and
\* there is one stored version per applied update
C2_VersionIsPreUpdateSnapshot ==
  \A id \in DOMAIN documents :
    /\ Len(StoredVersions(id)) = Len(update_log[id])
    /\ \A k \in 1..Len(update_log[id]) :
         LET v == StoredVersions(id)[k]
             before == Fields(update_log[id][k].before)
         IN /\ v.content = before.content
            /\ v.metadata = before.metadata
            /\ v.comments = before.comments

\* C2 witness: a document whose two stored versions differ in content, the
\* second holding what the first update wrote
C2_Witness ==
  /\ AllIdle
  /\ \E id \in DOMAIN documents :
       /\ Len(StoredVersions(id)) = 2
       /\ StoredVersions(id)[1].content = "x"
       /\ StoredVersions(id)[2].content = "y"

\* C3: every stored version also holds the title and the status the
\* document had just before the update that produced it
C3_VersionHoldsTitleAndStatus ==
  \A id \in DOMAIN documents :
    \A k \in 1..Len(StoredVersions(id)) :
      LET v == StoredVersions(id)[k]
      IN /\ "title" \in DOMAIN v
         /\ "status" \in DOMAIN v
         /\ k <= Len(update_log[id])
              => /\ v.title = update_log[id][k].before.title
                 /\ v.status = update_log[id][k].before.status

C5_ListAfterMutationIsFresh ==
  (/\ AllIdle
   /\ last.op = "list_documents"
   /\ last.outcome = "ok")
  => last.value = RepositoryListDocuments(last.window[1], last.window[2])

\* C6: while the last delete(id) that returned has not been followed by a
\* restore(id) that returned, get_by_id(id) and update(id, ...) fail with
\* DocumentNotFound and no list_documents result holds the document
C6_SoftDeletedIsInvisible ==
  \A id \in Ids :
    (AllIdle /\ acked[id].deleted)
    => /\ (last.id = id /\ last.op \in {"get_by_id", "update"})
            => last.outcome = "DocumentNotFound"
       /\ (last.op = "list_documents" /\ last.outcome = "ok")
            => \A k \in 1..Len(last.value) : last.value[k].id # id

\* C7: delete(id) on an id that is unknown or already soft-deleted fails
\* with DocumentNotFound, changes nothing, and never reports success
C7_DeleteOfMissingFails ==
  (/\ AllIdle
   /\ last.op = "delete"
   /\ (last.pre = Null \/ last.pre.is_deleted))
  => /\ last.outcome = "DocumentNotFound"
     /\ ~last.applied
     /\ Stored(last.id) = last.pre

\* C7 witness: a delete of an already soft-deleted document has returned
C7_Witness ==
  /\ AllIdle
  /\ last.op = "delete"
  /\ last.pre # Null
  /\ last.pre.is_deleted
  /\ last.outcome = "DocumentNotFound"

\* C8: restore(id) on an id that is unknown or not soft-deleted fails with
\* DocumentNotFound and leaves the stored record as it was, updated_at
\* included
C8_RestoreOfLiveFails ==
  (/\ AllIdle
   /\ last.op = "restore"
   /\ (last.pre = Null \/ ~last.pre.is_deleted))
  => /\ last.outcome = "DocumentNotFound"
     /\ Stored(last.id) = last.pre

\* C8 witness: a restore of a live document that has been updated has
\* returned
C8_Witness ==
  /\ AllIdle
  /\ last.op = "restore"
  /\ last.pre # Null
  /\ ~last.pre.is_deleted
  /\ last.pre.updated_at > last.pre.created_at
  /\ last.outcome = "DocumentNotFound"

\* C9: a restore(id) that directly follows a successful delete(id) returns
\* the document with the title, content, status, metadata, comments and
\* versions it had before the delete, and is_deleted false
C9_DeleteRestoreRoundTrip ==
  [][(/\ last.op = "delete"
      /\ last.outcome = "ok"
      /\ last'.op = "restore"
      /\ last'.id = last.id)
     => /\ last'.outcome = "ok"
        /\ Fields(last'.value) = Fields(ToDomainDocument(last.pre))
        /\ last'.value.versions = ToDomainDocument(last.pre).versions
        /\ ~last'.value.is_deleted]_vars

\* the two DTOs supply no field in common
Disjoint(d1, d2) == \A f \in DOMAIN d1 : d1[f] = None \/ d2[f] = None

\* C10: once the repository has applied the updates of two calls on one id,
\* whatever their interleaving, two versions are stored, the later holds the
\* state the earlier update wrote, and the document shows the field changes
\* of both when they touch different fields
C10_ConcurrentUpdatesBothRecorded ==
  \A id \in DOMAIN documents :
    (calls = 2 /\ Len(update_log[id]) = 2)
    => LET first == update_log[id][1]
           second == update_log[id][2]
           versions == StoredVersions(id)
       IN /\ Len(versions) = 2
          /\ versions[2].content = first.after.content
          /\ versions[2].metadata = first.after.metadata
          /\ versions[2].comments = first.after.comments
          /\ Disjoint(first.data, second.data)
               => Fields(ToDomainDocument(documents[id])) =
                    ApplyFields(ApplyFields(Fields(first.before), first.data),
                                second.data)

\* s is an initial segment of t
IsPrefix(s, t) == Len(s) <= Len(t) /\ SubSeq(t, 1, Len(s)) = s

\* C11: no step, under any interleaving of the calls, removes, reorders or
\* changes a stored version: the stored version list of every document
\* before the step is a prefix of its stored version list after the step
C11_VersionsAppendOnly ==
  [][\A id \in DOMAIN documents :
       /\ id \in DOMAIN documents'
       /\ IsPrefix(StoredVersions(id), StoredVersions(id)')]_vars

\* C12: no step removes a stored record, and the step that soft-deletes a
\* record changes nothing in it but is_deleted and updated_at
C12_NeverErased ==
  [][\A id \in DOMAIN documents :
       /\ id \in DOMAIN documents'
       /\ (~documents[id].is_deleted /\ documents'[id].is_deleted)
            => [documents'[id] EXCEPT !.is_deleted = FALSE,
                                      !.updated_at = documents[id].updated_at]
                 = documents[id]]_vars

\* C12 witness: delete has returned success for a document that had been
\* updated, and its record is still stored, flagged as deleted
C12_Witness ==
  /\ AllIdle
  /\ last.op = "delete"
  /\ last.outcome = "ok"
  /\ Stored(last.id) # Null
  /\ Stored(last.id).is_deleted
  /\ Len(update_log[last.id]) > 0

\* the ids of a sequence of documents
IdsOf(docs) == [k \in 1..Len(docs) |-> docs[k].id]

\* C13: over the same records both backends answer alike: every window
\* lists the same ids in the same order under the document-store query and
\* under the relational query, and a Document that a call returns carries
\* the versions stored for it, whichever backend returned it
C13_BackendsAgree ==
  /\ \A window \in Windows :
       Slice(SeqOfSet(NotDeleted), window[1], window[2])
         = Slice(OrderByUpdatedAtDesc(NotDeleted), window[1], window[2])
  /\ (/\ AllIdle
      /\ last.op \in {"get_by_id", "update", "restore"}
      /\ last.outcome = "ok"
      /\ last.id \in DOMAIN documents)
     => last.value.versions = StoredVersions(last.id)

\* C14: for every window the repository's list_documents returns the slice
\* [skip, skip + limit) of the non-deleted documents ordered by updated_at,
\* most recent first
C14_ListIsSortedSlice ==
  \A window \in Windows :
    IdsOf(RepositoryListDocuments(window[1], window[2]))
      = Slice(OrderByUpdatedAtDesc(NotDeleted), window[1], window[2])

\* rows of S ordered by timestamp, most recent first
RECURSIVE OrderByTimestampDesc(_)
OrderByTimestampDesc(S) ==
  IF S = {} THEN <<>>
  ELSE LET m == CHOOSE x \in S : \A y \in S : x.timestamp >= y.timestamp
       IN <<m>> \o OrderByTimestampDesc(S \ {m})

\* SQLDocumentAdapter.get_versions: the version rows of the document,
\* order_by(timestamp.desc())
SQLGetVersions(id) ==
  LET rows == OrderByTimestampDesc(
                {document_versions[k] : k \in
                   {j \in DOMAIN document_versions :
                      document_versions[j].document_id = id}})
  IN [k \in 1..Len(rows) |-> SQLToDomainVersion(rows[k])]

\* C15: the relational repository's get_versions returns the versions in
\* the order the updates were applied, oldest first; the service's
\* get_versions returns them in that order too, and returns the empty
\* sequence, not an error, for a live document that was never updated
C15_VersionsOldestFirst ==
  /\ backend = "sql"
       => \A id \in DOMAIN documents : SQLGetVersions(id) = StoredVersions(id)
  /\ (/\ AllIdle
      /\ last.op = "get_versions"
      /\ last.pre # Null
      /\ ~last.pre.is_deleted)
     => IF StoredVersions(last.id) = <<>>
        THEN last.outcome = "ok" /\ last.value = <<>>
        ELSE last.outcome = "ok" => last.value = StoredVersions(last.id)

\* C18: whenever the repository step of create, update or restore has
\* succeeded, the call returns the stored document, whatever happens in
\* the cache steps that follow
C18_CacheErrorsNeverReachCaller ==
  (/\ AllIdle
   /\ last.op \in {"create", "update", "restore"}
   /\ last.applied)
  => /\ last.outcome = "ok"
     /\ last.value = ToDomainDocument(Stored(last.id))

\* C16: a list request with skip < 0, limit < 1 or limit > 100 is answered
\* with a validation error in the step that makes it, which starts no call
\* and leaves the cache and the repository alone, and no list call with
\* such a window is ever in flight
C16_ListWindowValidated ==
  [][/\ \A t \in Tasks :
          tasks'[t].op = "list_documents"
            => DocumentListDTOValid(tasks'[t].window[1], tasks'[t].window[2])
     /\ (/\ last' # last
         /\ last'.op = "list_documents"
         /\ ~(/\ last'.window[1] >= 0
              /\ last'.window[2] >= 1
              /\ last'.window[2] <= MaxLimit))
        => /\ last'.outcome = "ValidationError"
           /\ UNCHANGED <<documents, document_versions, redis, tasks>>]_vars

\* C16 witness: with a document stored, a request with limit 101 has been
\* answered with a validation error
C16_Witness ==
  /\ DOMAIN documents # {}
  /\ last.op = "list_documents"
  /\ last.window = <<0, MaxLimit + 1>>
  /\ last.outcome = "ValidationError"

\* C17: with every cache call failing, each service call completes with the
\* result the repository alone determines: the stored non-deleted document
\* or DocumentNotFound for the reads, the repository's window for the list,
\* and the stored document for every mutation the repository applied
C17_CacheDownIsTransparent ==
  (AllIdle /\ last.op # "none" /\ last.outcome # "ValidationError")
  => LET found == FindOne(last.id, FALSE)
     IN CASE last.op = "get_by_id" ->
               IF found = Null THEN last.outcome = "DocumentNotFound"
               ELSE /\ last.outcome = "ok"
                    /\ last.value = ToDomainDocument(found)
          [] last.op = "get_versions" ->
               IF found = Null THEN last.outcome = "DocumentNotFound"
               ELSE /\ last.outcome = "ok"
                    /\ last.value = ToDomainDocument(found).versions
          [] last.op = "list_documents" ->
               /\ last.outcome = "ok"
               /\ last.value =
                    RepositoryListDocuments(last.window[1], last.window[2])
          [] last.op = "delete" ->
               IF last.applied THEN last.outcome = "ok"
               ELSE last.outcome = "DocumentNotFound"
          [] OTHER ->
               IF last.applied
               THEN /\ last.outcome = "ok"
                    /\ last.value = ToDomainDocument(Stored(last.id))
               ELSE last.outcome = "DocumentNotFound"

\* C19: a get_by_id or create call whose repository call met a failing
\* store never ends with the backend's own exception (the driver's, the
\* ORM's or the retry library's): if it fails, it fails with the
\* application's storage error
C19_StoreErrorIsApplicationError ==
  (/\ AllIdle
   /\ last.op \in {"get_by_id", "create"}
   /\ last.failures > 0
   /\ last.outcome \notin {"ok", "DocumentNotFound"})
  => last.outcome = "StorageError"

\* C20: a call that met exactly one failed store call, the store answering
\* again afterwards, ends as it would have without the failure: no store
\* error reaches the service's caller
C20_TransientFailureIsMasked ==
  (AllIdle /\ last.failures = 1)
  => last.outcome \notin {"RetryError", "SQLAlchemyError"}

\* C21: no repository operation is attempted more than MaxAttempts times,
\* and every service call in flight eventually returns a result or an error
\* (again and again no call is in flight), however often the store fails,
\* provided each store and cache call returns
C21_EveryCallTerminates ==
  /\ [](\A t \in Tasks : tasks[t].attempt <= MaxAttempts)
  /\ []<>AllIdle

\* C21 witness: an update that was given up after the third failed attempt
\* of repository.update, its repository.get_by_id having failed before
C21_Witness ==
  /\ AllIdle
  /\ backend = "mongo"
  /\ last.op = "update"
  /\ last.outcome = "RetryError"
  /\ last.failures > MaxAttempts

\* C22: a get_by_id(id) that finds a per-id cache entry returns the document
\* of that entry at once: its next step is its return, with no repository
\* call, and neither the store nor the cache is written
C22_CacheHitSkipsRepository ==
  [][\A t \in Tasks :
       (/\ At(t, "cache.get_document")
        /\ Cached(DocumentKey(tasks[t].id))
        /\ tasks'[t] # tasks[t])
       => /\ Idle(t)'
          /\ last'.op = "get_by_id"
          /\ last'.id = tasks[t].id
          /\ last'.outcome = "ok"
          /\ last'.value = DeserializeDocument(redis[DocumentKey(tasks[t].id)])
          /\ UNCHANGED <<documents, document_versions, redis>>]_vars

\* C22 witness: get_by_id returned a cached document that differs from the
\* stored one, so it cannot have come from the repository
C22_Witness ==
  /\ AllIdle
  /\ last.op = "get_by_id"
  /\ last.outcome = "ok"
  /\ Cached(DocumentKey(last.id))
  /\ last.value = DeserializeDocument(redis[DocumentKey(last.id)])
  /\ last.value # ToDomainDocument(documents[last.id])

\* C23: a get_by_id(id) that missed the cache returns the non-deleted
\* document the repository holds for id and stores it under the per-id key;
\* with no such document it fails with DocumentNotFound and leaves the cache
\* as it is
C23_CacheMissReadsThrough ==
  [][\A t \in Tasks :
       (tasks[t].op = "get_by_id" /\ tasks'[t] # tasks[t])
       => /\ At(t, "repository.get_by_id")
             => IF FindOne(tasks[t].id, FALSE) = Null
                THEN /\ Idle(t)'
                     /\ last'.outcome = "DocumentNotFound"
                     /\ UNCHANGED redis
                ELSE /\ tasks'[t].pc = "cache.set_document"
                     /\ tasks'[t].document =
                          ToDomainDocument(FindOne(tasks[t].id, FALSE))
          /\ At(t, "cache.set_document")
             => /\ Idle(t)'
                /\ last'.outcome = "ok"
                /\ last'.value = tasks[t].document
                /\ Cached(DocumentKey(tasks[t].id))'
                /\ DeserializeDocument(redis'[DocumentKey(tasks[t].id)])
                     = tasks[t].document]_vars

\* C24: a list_documents(skip, limit) that finds an entry under the key of
\* its own window returns the sequence of that entry at once, the empty
\* sequence included: its next step is its return, with no repository call
C24_ListCacheHitSkipsRepository ==
  [][\A t \in Tasks :
       LET key == ListKey(tasks[t].window[1], tasks[t].window[2])
       IN (/\ At(t, "cache.get_document_list")
           /\ Cached(key)
           /\ tasks'[t] # tasks[t])
          => /\ Idle(t)'
             /\ last'.op = "list_documents"
             /\ last'.window = tasks[t].window
             /\ last'.outcome = "ok"
             /\ last'.value = [k \in 1..Len(redis[key]) |->
                                 DeserializeDocument(redis[key][k])]
             /\ UNCHANGED redis]_vars

\* C25: when get_versions(id) returns and the store holds no document for
\* id, or holds a soft-deleted one, the call has failed with
\* DocumentNotFound, whatever was cached for id before
C25_VersionsOfMissingFails ==
  (/\ AllIdle
   /\ last.op = "get_versions"
   /\ \/ last.id \notin DOMAIN documents
      \/ documents[last.id].is_deleted)
  => last.outcome = "DocumentNotFound"

\* C25 witness: get_versions failed on a soft-deleted document whose create
\* had cached its version list
C25_Witness ==
  /\ AllIdle
  /\ last.op = "get_versions"
  /\ last.outcome = "DocumentNotFound"
  /\ last.id \in DOMAIN documents
  /\ documents[last.id].is_deleted
  /\ ~Cached(VersionsKey(last.id))

\* C26: when get_version(id, version_id) returns, it has returned the
\* version with that version_id from the list get_versions(id) returns (the
\* versions of the document repository.get_by_id returns), and has failed
\* with DocumentNotFound when that list has no such version or the document
\* is absent or soft-deleted
C26_GetVersionScansVersions ==
  (AllIdle /\ last.op = "get_version")
  => LET found == FindOne(last.id, FALSE)
         versions == IF found = Null THEN <<>>
                     ELSE ToDomainDocument(found).versions
         matching == {k \in 1..Len(versions) :
                        versions[k].version_id = last.version_id}
     IN IF matching = {}
        THEN last.outcome = "DocumentNotFound"
        ELSE /\ last.outcome = "ok"
             /\ \E k \in matching : last.value = versions[k]

\* C27: an update(id, data) whose repository lookup meets no document for
\* id, or a soft-deleted one, fails with DocumentNotFound at that step and
\* writes nothing to the store; update starts with the repository lookup,
\* whatever the cache holds for id
C27_UpdateOfMissingFails ==
  [][\A t \in Tasks :
       /\ (Idle(t) /\ tasks'[t].op = "update")
          => tasks'[t].pc = "repository.get_by_id"
       /\ (/\ tasks[t].op = "update"
           /\ tasks[t].pc \in {"repository.get_by_id", "repository.update"}
           /\ \/ tasks[t].id \notin DOMAIN documents
              \/ documents[tasks[t].id].is_deleted
           /\ tasks'[t] # tasks[t])
          => /\ Idle(t)'
             /\ last'.op = "update"
             /\ last'.outcome = "DocumentNotFound"
             /\ ~last'.applied
             /\ UNCHANGED <<documents, document_versions, update_log>>]_vars

\* C27 witness: an update of a soft-deleted document failed with
\* DocumentNotFound and the stored record is as it was when the call began
C27_Witness ==
  /\ AllIdle
  /\ last.op = "update"
  /\ last.outcome = "DocumentNotFound"
  /\ last.pre # Null
  /\ last.pre.is_deleted
  /\ Stored(last.id) = last.pre

\* C28: in every state, also after updates that failed at a store call, a
\* document has one stored version per update applied to it, and with its
\* latest version it has the field values of the update that produced that
\* version: no version without the field change, no field change without
\* the version
C28_UpdateIsAtomic ==
  \A id \in DOMAIN documents :
    LET n == Len(update_log[id])
    IN /\ Len(StoredVersions(id)) = n
       /\ n > 0 => Fields(ToDomainDocument(documents[id])) =
                     ApplyFields(Fields(update_log[id][n].before),
                                 update_log[id][n].data)

\* C28 witness: the update of the relational adapter failed at its UPDATE
\* statement, after the clock was read for the version row, and the store
\* holds neither the version nor the field change
C28_Witness ==
  /\ AllIdle
  /\ backend = "sql"
  /\ last.op = "update"
  /\ last.outcome = "SQLAlchemyError"
  /\ calls = 1
  /\ now = 2
  /\ Stored(last.id) = last.pre
  /\ StoredVersions(last.id) = <<>>

\* C29: the repository step that applies an update of id sets the supplied
\* fields and leaves the other editable fields, id, created_at and
\* is_deleted as they were; it appends one version to those of id, and no
\* other document and no other document's versions change
C29_UpdateChangesOnlySupplied ==
  [][\A t \in Tasks :
       (At(t, "repository.update.save") /\ tasks'[t].applied)
       => LET id == tasks[t].id
              before == ToDomainDocument(documents[id])
              after == ToDomainDocument(documents'[id])
          IN /\ Fields(after) = ApplyFields(Fields(before), tasks[t].data)
             /\ after.id = before.id
             /\ after.created_at = before.created_at
             /\ after.is_deleted = before.is_deleted
             /\ Len(StoredVersions(id)') = Len(StoredVersions(id)) + 1
             /\ IsPrefix(StoredVersions(id), StoredVersions(id)')
             /\ DOMAIN documents' = DOMAIN documents
             /\ \A other \in DOMAIN documents \ {id} :
                  /\ documents'[other] = documents[other]
                  /\ StoredVersions(other)' = StoredVersions(other)]_vars

C31_UpdatedAtAdvances ==
  [][\A id \in DOMAIN documents :
       /\ documents'[id].created_at = documents[id].created_at
       /\ documents'[id].updated_at >= documents[id].updated_at
       /\ documents'[id] # documents[id]
          => /\ documents'[id].updated_at > documents[id].created_at
             /\ \E t \in Tasks :
                  /\ tasks[t].op \in {"update", "delete", "restore"}
                  /\ tasks[t].id = id
                  /\ tasks'[t] # tasks[t]]_vars

\* C32: when a request with an RPC has ended with an error, the handler
\* reports NOT_FOUND for DocumentNotFound, INVALID_ARGUMENT for a validation
\* failure or a malformed id, and INTERNAL with the fixed details
\* 'Internal server error' for every other failure
C32_ErrorKindsHaveOwnStatus ==
  (/\ AllIdle
   /\ last.op \in RpcOps
   /\ last.outcome \notin {"ok", "none"})
  => LET reported == Report(last.op, last.outcome)
     IN CASE last.outcome = "DocumentNotFound" ->
               reported.code = "NOT_FOUND"
          [] last.outcome \in {"ValidationError", "ValueError"} ->
               reported.code = "INVALID_ARGUMENT"
          [] OTHER ->
               /\ reported.code = "INTERNAL"
               /\ reported.details = "Internal server error"

\* C32 witness: requests have ended with DocumentNotFound, with a
\* validation failure and with a failure of the store, one of them last
C32_Witness ==
  /\ AllIdle
  /\ last.op = "delete"
  /\ last.outcome = "DocumentNotFound"
  /\ Report(last.op, last.outcome).code = "NOT_FOUND"
  /\ faults < MaxFaults

\* C33: an update, delete or restore call changes the cache only after its
\* repository write has been applied, and a call that ends with
\* DocumentNotFound has applied none: no step of it writes or evicts a cache
\* entry
C33_NotFoundLeavesCacheAlone ==
  [][\A t \in Tasks :
       (/\ tasks[t].op \in {"update", "delete", "restore"}
        /\ tasks'[t] # tasks[t])
       => /\ redis' # redis => tasks[t].applied
          /\ (tasks[t].applied /\ ~Idle(t)') => tasks'[t].applied
          /\ (Idle(t)' /\ last'.outcome = "DocumentNotFound")
             => /\ ~tasks[t].applied
                /\ redis' = redis]_vars

\* C33 witness: a delete has failed with DocumentNotFound while list windows
\* were cached, and they still are
C33_Witness ==
  /\ AllIdle
  /\ last.op = "delete"
  /\ last.outcome = "DocumentNotFound"
  /\ ListKeys # {}

\* C34: between calls made one after another, with the cache up and no
\* entry expired, every per-id entry is the repository's current non-deleted
\* document, every version-list entry is that document's current version
\* list, and every list-window entry is what the repository returns for the
\* window now
C34_CacheAgreesWithRepository ==
  AllIdle =>
    /\ \A id \in Ids :
         Cached(DocumentKey(id)) =>
           /\ FindOne(id, FALSE) # Null
           /\ DeserializeDocument(redis[DocumentKey(id)])
                = ToDomainDocument(documents[id])
    /\ \A id \in Ids :
         Cached(VersionsKey(id)) =>
           /\ FindOne(id, FALSE) # Null
           /\ redis[VersionsKey(id)] = StoredVersions(id)
    /\ \A key \in ListKeys :
         [k \in 1..Len(redis[key]) |-> DeserializeDocument(redis[key][k])]
           = RepositoryListDocuments(key[2], key[3])

\* C35: when a get_by_id(id) and a delete(id), the only two calls made, have
\* both returned successfully, whatever way their steps interleaved, the
\* per-id cache holds no entry for id
C35_DeleteWinsOverConcurrentRead ==
  [][\A t \in Tasks :
       (/\ ~Idle(t)
        /\ AllIdle'
        /\ calls = 2
        /\ {last.op, tasks[t].op} = {"get_by_id", "delete"}
        /\ last.id = tasks[t].id
        /\ last.outcome = "ok"
        /\ last'.outcome = "ok")
       => DocumentKey(tasks[t].id) \notin DOMAIN redis']_vars

\* C36: when two update calls on one id, the only two calls made, have both
\* returned successfully, whatever way their steps interleaved, the per-id
\* cache entry is the stored document and the cached version list is the
\* stored version list
C36_CacheFollowsLastUpdate ==
  [][\A t \in Tasks :
       (/\ ~Idle(t)
        /\ AllIdle'
        /\ calls = 2
        /\ last.op = "update"
        /\ tasks[t].op = "update"
        /\ last.id = tasks[t].id
        /\ last.outcome = "ok"
        /\ last'.outcome = "ok")
       => LET id == tasks[t].id
          IN /\ DocumentKey(id) \in DOMAIN redis'
                => DeserializeDocument(redis'[DocumentKey(id)])
                     = ToDomainDocument(documents'[id])
             /\ VersionsKey(id) \in DOMAIN redis'
                => redis'[VersionsKey(id)] = StoredVersions(id)']_vars

\* C37: when a list_documents call and a create, update, delete or restore
\* call, the only two calls made, have both returned successfully, whatever
\* way their steps interleaved, every cached list window is what the
\* repository returns for that window
C37_NoStaleWindowAfterMutation ==
  [][\A t \in Tasks :
       (/\ ~Idle(t)
        /\ AllIdle'
        /\ calls = 2
        /\ \E op \in {"create", "update", "delete", "restore"} :
             {last.op, tasks[t].op} = {"list_documents", op}
        /\ last.outcome = "ok"
        /\ last'.outcome = "ok")
       => \A key \in DOMAIN redis' :
            key[1] = "documents"
            => [k \in 1..Len(redis'[key]) |-> DeserializeDocument(redis'[key][k])]
                 = RepositoryListDocuments(key[2], key[3])']_vars

\* C38: of two delete calls on one id that both started while the document
\* was not deleted, exactly one returns successfully and the other fails with
\* DocumentNotFound; likewise of two restore calls that both started while
\* the document was deleted
C38_OneOfTwoDeletesSucceeds ==
  [][\A t \in Tasks :
       (/\ ~Idle(t)
        /\ Idle(t)'
        /\ \E op \in {"delete", "restore"} :
             /\ last.op = op
             /\ tasks[t].op = op
             /\ last.pre # Null
             /\ tasks[t].pre # Null
             /\ last.pre.is_deleted = (op = "restore")
             /\ tasks[t].pre.is_deleted = (op = "restore")
        /\ last.id = tasks[t].id
        /\ {last.outcome, last'.outcome} \subseteq {"ok", "DocumentNotFound"})
       => {last.outcome, last'.outcome} = {"ok", "DocumentNotFound"}]_vars

\* C39: in a create, update, delete or restore call no step changes the
\* cache before the call's repository write is applied; the Document a call
\* holds is the repository's state of that document at the step that read or
\* wrote it; and every value a step puts under a per-id key or a version-list
\* key is taken from the Document the call holds: a state the repository
\* held for that document at an earlier moment
C39_CacheHoldsEarlierRepositoryStates ==
  [][\A t \in Tasks :
       (tasks'[t] # tasks[t] /\ ~Idle(t) /\ tasks[t].op # "list_documents")
       => LET op == tasks[t].op
              id == tasks[t].id
          IN /\ (op \in {"create", "update", "delete", "restore"} /\ redis' # redis)
                => tasks[t].applied
             /\ (tasks'[t].applied /\ ~tasks[t].applied)
                => /\ documents' # documents
                   /\ op # "delete"
                      => tasks'[t].document = ToDomainDocument(documents'[id])
             /\ (~Idle(t)' /\ tasks'[t].document # tasks[t].document)
                => tasks'[t].document = ToDomainDocument(documents'[id])
             /\ \A i \in Ids :
                  /\ (/\ DocumentKey(i) \in DOMAIN redis'
                      /\ \/ DocumentKey(i) \notin DOMAIN redis
                         \/ redis'[DocumentKey(i)] # redis[DocumentKey(i)])
                     => /\ i = id
                        /\ tasks[t].document # Null
                        /\ DeserializeDocument(redis'[DocumentKey(i)])
                             = tasks[t].document
                  /\ (/\ VersionsKey(i) \in DOMAIN redis'
                      /\ \/ VersionsKey(i) \notin DOMAIN redis
                         \/ redis'[VersionsKey(i)] # redis[VersionsKey(i)])
                     => /\ i = id
                        /\ tasks[t].document # Null
                        /\ redis'[VersionsKey(i)] = tasks[t].document.versions]_vars

\* C39 witness: two updates have returned, and the per-id entry is the
\* document as the repository held it earlier, not as it holds it now
C39_Witness ==
  /\ AllIdle
  /\ last.op = "update"
  /\ last.outcome = "ok"
  /\ Cached(DocumentKey(last.id))
  /\ DeserializeDocument(redis[DocumentKey(last.id)])
       # ToDomainDocument(documents[last.id])
  /\ \E k \in 1..Len(update_log[last.id]) :
       DeserializeDocument(redis[DocumentKey(last.id)])
         = update_log[last.id][k].after

\* C40: when an update call on the document store has ended with its save
\* applied, however many attempts the adapter needed and whether an attempt
\* failed before or after the store applied its save, the document has
\* exactly one version more than when the call started, and that version
\* holds the content, metadata and comments the document had then
C40_RetriedUpdateAddsOneVersion ==
  (/\ AllIdle
   /\ backend = "mongo"
   /\ last.op = "update"
   /\ last.applied)
  => LET versions == documents[last.id].versions
     IN /\ Len(versions) = Len(last.pre.versions) + 1
        /\ versions[Len(versions)].content = last.pre.content
        /\ versions[Len(versions)].metadata = last.pre.metadata
        /\ versions[Len(versions)].comments = last.pre.comments

====
